---- MODULE Spec2Model ----
(***************************************************************************)
(* Field-mask utilities (fmutils.go): building a NestedMask from paths and *)
(* applying it to a protobuf message with Filter / Prune, in the exact and *)
(* in the wildcard engine.                                                 *)
(*                                                                         *)
(* A message is a function from its populated field names to values.       *)
(* A scalar is a number, a list a non-empty sequence, a map a function     *)
(* with a non-empty set of keys, a nested message a function again (the    *)
(* empty function is a message that is present and has no populated        *)
(* field).  A NestedMask is a function from keys to NestedMasks; the empty *)
(* function is a leaf.                                                     *)
(***************************************************************************)
EXTENDS Integers, Sequences, FiniteSets, TLC

(* ------------------------------ bounds -------------------------------- *)
MaxPaths == 2       \* longest path list
MaxSize == 3        \* most values (fields, elements, entries) in a message
MaxRunes == 4       \* longest path, in runes, given to a builder on its own

(* ------------------- the message schema of the tests ------------------ *)
\* The fields of each message type (testproto, reduced).
Fields ==
    [Profile   |-> {"user", "gallery", "attributes", "login_timestamps"},
     User      |-> {"user_id", "name"},
     Photo     |-> {"photo_id", "path"},
     Attribute |-> {"tags"}]

\* protoreflect.FieldDescriptor: IsMap / IsList / Kind, and the value kind.
FieldKind ==
    [user             |-> "message",
     gallery          |-> "list_message",
     attributes       |-> "map_message",
     login_timestamps |-> "list_scalar",
     user_id          |-> "scalar",
     name             |-> "scalar",
     photo_id         |-> "scalar",
     path             |-> "scalar",
     tags             |-> "map_scalar"]

\* The message type of a field that holds messages.
FieldType == [user |-> "User", gallery |-> "Photo", attributes |-> "Attribute"]

\* The keys the maps of the test messages use.
MapKeys == [attributes |-> {"a1", "a2"}, tags |-> {"t1", "t2", "t3"}]

ScalarValues == {1}

IsMap(fd) == FieldKind[fd] \in {"map_scalar", "map_message"}
IsList(fd) == FieldKind[fd] \in {"list_scalar", "list_message"}
IsMessageKind(fd) == FieldKind[fd] = "message"
\* mv.Interface().(protoreflect.Message) succeeds for a map of messages only.
MapValueIsMessage(fd) == FieldKind[fd] = "map_message"
\* list.Get(i).Message() panics on a list of scalars.
ListOfScalars(fd) == FieldKind[fd] = "list_scalar"

EmptyMessage == << >>

\* rft.Clear(fd) / xmap.Clear(mk): the field or entry is no longer populated.
Clear(f, k) == [x \in (DOMAIN f) \ {k} |-> f[x]]

\* A map mutated in place; a map without entries is an unpopulated field.
SetMap(rft, fd, xmap) ==
    IF DOMAIN xmap = {} THEN Clear(rft, fd) ELSE [rft EXCEPT ![fd] = xmap]

(* ------------------------- bounded messages --------------------------- *)
RECURSIVE Size(_, _)
RECURSIVE ValueSize(_, _)
RECURSIVE SumSizes(_, _, _)

\* The number of values under the keys ks of f, each of the given kind.
SumSizes(kind, f, ks) ==
    IF ks = {} THEN 0
    ELSE LET k == CHOOSE x \in ks : TRUE
         IN  ValueSize(kind, f[k]) + SumSizes(kind, f, ks \ {k})

ValueSize(kind, v) ==
    CASE kind = "scalar"  -> 1
      [] kind = "message" -> 1 + Size(v, DOMAIN v)
      [] kind \in {"list_scalar", "map_scalar"} -> Cardinality(DOMAIN v)
      [] OTHER -> SumSizes("message", v, DOMAIN v)

Size(msg, fds) ==
    IF fds = {} THEN 0
    ELSE LET fd == CHOOSE x \in fds : TRUE
         IN  ValueSize(FieldKind[fd], msg[fd]) + Size(msg, fds \ {fd})

RECURSIVE MessagesOf(_)
RECURSIVE ValuesOf(_)
RECURSIVE MessagesOver(_)

\* The values a populated field fd can hold.
ValuesOf(fd) ==
    LET kind == FieldKind[fd] IN
    CASE kind = "scalar" -> ScalarValues
      [] kind = "list_scalar" ->
            UNION {[1..n -> ScalarValues] : n \in 1..MaxSize}
      [] kind = "message" -> MessagesOf(FieldType[fd])
      [] kind = "list_message" ->
            UNION {[1..n -> MessagesOf(FieldType[fd])] : n \in 1..MaxSize}
      [] kind = "map_scalar" ->
            UNION {[K -> ScalarValues] : K \in (SUBSET MapKeys[fd]) \ {{}}}
      [] kind = "map_message" ->
            UNION {[K -> MessagesOf(FieldType[fd])] : K \in (SUBSET MapKeys[fd]) \ {{}}}

\* The messages whose populated fields are among fds.
MessagesOver(fds) ==
    IF fds = {} THEN {EmptyMessage}
    ELSE LET fd == CHOOSE x \in fds : TRUE
             rest == MessagesOver(fds \ {fd})
         IN  rest \cup
             {[x \in (DOMAIN m) \cup {fd} |-> IF x = fd THEN v ELSE m[x]] :
                 m \in {r \in rest : Size(r, DOMAIN r) < MaxSize}, v \in ValuesOf(fd)}

MessagesOf(type) ==
    {m \in MessagesOver(Fields[type]) : Size(m, DOMAIN m) <= MaxSize}

Messages == MessagesOf("Profile")


(* ------------------------------- paths -------------------------------- *)
\* A path is the sequence of its runes (`for _, letter := range path`);
\* Spell gives the runes of the segments the path pools are written with.
Spell ==
    "user" :> <<"u", "s", "e", "r">> @@
    "gallery" :> <<"g", "a", "l", "l", "e", "r", "y">> @@
    "attributes" :> <<"a", "t", "t", "r", "i", "b", "u", "t", "e", "s">> @@
    "login_timestamps" :> <<"l", "o", "g", "i", "n", "_", "t", "i", "m", "e", "s", "t", "a", "m", "p", "s">> @@
    "user_id" :> <<"u", "s", "e", "r", "_", "i", "d">> @@
    "name" :> <<"n", "a", "m", "e">> @@
    "photo_id" :> <<"p", "h", "o", "t", "o", "_", "i", "d">> @@
    "path" :> <<"p", "a", "t", "h">> @@
    "tags" :> <<"t", "a", "g", "s">> @@
    "a1" :> <<"a", "1">> @@
    "a2" :> <<"a", "2">> @@
    "t1" :> <<"t", "1">> @@
    "t2" :> <<"t", "2">> @@
    "t3" :> <<"t", "3">> @@
    "first" :> <<"f", "i", "r", "s", "t">> @@
    "*" :> <<"*">>

Dot == "."

RECURSIVE PathOf(_)
\* The path string whose segments are segs, joined by the delimiter.
PathOf(segs) ==
    IF Len(segs) = 1 THEN Spell[segs[1]]
    ELSE Spell[segs[1]] \o <<Dot>> \o PathOf(Tail(segs))

\* The sequences over pool of length 0..MaxPaths.
PathLists(pool) == UNION {[1..n -> pool] : n \in 0..MaxPaths}

\* Paths of the exact engine: leaf and nested matches of every field kind,
\* an over-specified path of a scalar, of a scalar map entry and of a scalar
\* list, and a delimiter-only path.
ExactPool ==
    {PathOf(<<"user">>),
     PathOf(<<"user", "name">>),
     PathOf(<<"user", "name", "first">>),
     PathOf(<<"gallery", "path">>),
     PathOf(<<"attributes", "a1">>),
     PathOf(<<"attributes", "a2", "tags", "t1">>),
     PathOf(<<"attributes", "a1", "tags", "t1", "first">>),
     PathOf(<<"login_timestamps", "first">>),
     <<Dot, Dot>>}

\* Paths of the wildcard engine: with and without the segment `*`.
WildcardPool ==
    {PathOf(<<"user", "name">>),
     PathOf(<<"gallery", "path">>),
     PathOf(<<"attributes", "a1">>),
     PathOf(<<"attributes", "a2", "tags", "t1">>),
     PathOf(<<"*">>),
     PathOf(<<"attributes", "*">>),
     PathOf(<<"attributes", "*", "tags", "t1">>),
     PathOf(<<"*", "*", "tags", "t3">>)}

(* ---------------------------- mask builder ---------------------------- *)
EmptyMask == << >>

RECURSIVE EnsureChild(_, _, _)
RECURSIVE ScanPath(_, _, _, _)


\* EnsureChild with `curr[key] = make(NestedMask)` done whether or not the key
\* is there already.
EnsureChild_Overwrites(mask, curr, key) ==
    IF curr = << >>
    THEN [x \in (DOMAIN mask) \cup {key} |->
             IF x = key THEN EmptyMask ELSE mask[x]]
    ELSE [mask EXCEPT ![Head(curr)] = EnsureChild(@, Tail(curr), key)]

\* `c, ok := curr[key]; if !ok { c = make(NestedMask); curr[key] = c }`, for
\* the node curr points to: the node reached from the root by the keys curr.
EnsureChild(mask, curr, key) ==
    IF curr = << >>
    THEN IF key \in DOMAIN mask
         THEN mask
         ELSE [x \in (DOMAIN mask) \cup {key} |->
                  IF x = key THEN EmptyMask ELSE mask[x]]
    ELSE [mask EXCEPT ![Head(curr)] = EnsureChild(@, Tail(curr), key)]

\* ScanPath with the `if len(letters) == 0 { continue }` of the delimiter left
\* out.
ScanPath_KeepsEmptySegments(mask, curr, letters, runes) ==
    IF runes = << >>
    THEN IF letters # "" THEN EnsureChild(mask, curr, letters) ELSE mask
    ELSE LET letter == Head(runes) IN
         IF letter = Dot
         THEN ScanPath(EnsureChild(mask, curr, letters),
                       Append(curr, letters), "", Tail(runes))
         ELSE ScanPath(mask, curr, letters \o letter, Tail(runes))

\* The loop over the letters of one path; letters is string(letters).
ScanPath(mask, curr, letters, runes) ==
    IF runes = << >>
    THEN IF letters # "" THEN EnsureChild(mask, curr, letters) ELSE mask
    ELSE LET letter == Head(runes) IN
         IF letter = Dot
         THEN IF letters = ""
              THEN ScanPath(mask, curr, letters, Tail(runes))
              ELSE ScanPath(EnsureChild(mask, curr, letters),
                            Append(curr, letters), "", Tail(runes))
         ELSE ScanPath(mask, curr, letters \o letter, Tail(runes))

RECURSIVE AddPaths(_, _)
\* The loop over the paths.
AddPaths(mask, paths) ==
    IF paths = << >> THEN mask
    ELSE AddPaths(ScanPath(mask, << >>, "", Head(paths)), Tail(paths))

NestedMaskFromPaths(paths) == AddPaths(EmptyMask, paths)

RECURSIVE WildcardScanPath(_, _, _, _)
\* The same loop over the letters, of WildcardNestedMaskFromPaths: `*` is a
\* letter like any other.
WildcardScanPath(mask, curr, letters, runes) ==
    IF runes = << >>
    THEN IF letters # "" THEN EnsureChild(mask, curr, letters) ELSE mask
    ELSE LET letter == Head(runes) IN
         IF letter = Dot
         THEN IF letters = ""
              THEN WildcardScanPath(mask, curr, letters, Tail(runes))
              ELSE WildcardScanPath(EnsureChild(mask, curr, letters),
                                    Append(curr, letters), "", Tail(runes))
         ELSE WildcardScanPath(mask, curr, letters \o letter, Tail(runes))

RECURSIVE WildcardAddPaths(_, _)
WildcardAddPaths(mask, paths) ==
    IF paths = << >> THEN mask
    ELSE WildcardAddPaths(WildcardScanPath(mask, << >>, "", Head(paths)),
                          Tail(paths))

WildcardNestedMaskFromPaths(paths) == WildcardAddPaths(EmptyMask, paths)

(* ---------------------------- exact engine ---------------------------- *)
\* len(m) == 0
IsLeaf(m) == DOMAIN m = {}

\* mk.String() of a string key (the maps of the messages have string keys).
KeyString(mk) == mk

RECURSIVE Filter(_, _)
RECURSIVE Prune(_, _)
RECURSIVE FilterFaults(_, _)
RECURSIVE PruneFaults(_, _)

\* FilterMap with the `else { xmap.Clear(mk) }` branch left out.
FilterMap_KeepsAll(m, xmap, fd) ==
    [mk \in DOMAIN xmap |->
        IF KeyString(mk) \in DOMAIN m /\ MapValueIsMessage(fd)
           /\ ~IsLeaf(m[KeyString(mk)])
        THEN Filter(m[KeyString(mk)], xmap[mk])
        ELSE xmap[mk]]

\* xmap.Range of Filter: an entry whose key is in m is kept, and filtered
\* when its value is a message and its subtree is no leaf; any other entry
\* is cleared.
FilterMap(m, xmap, fd) ==
    [mk \in {k \in DOMAIN xmap : KeyString(k) \in DOMAIN m} |->
        LET mi == m[KeyString(mk)] IN
        IF MapValueIsMessage(fd) /\ ~IsLeaf(mi)
        THEN Filter(mi, xmap[mk])
        ELSE xmap[mk]]

\* FilterField with the `else { rft.Clear(fd) }` branch left out.
FilterField_KeepsAbsent(mask, rft, fd) ==
    IF fd \in DOMAIN mask
    THEN LET m == mask[fd] IN
         IF IsLeaf(m) THEN rft
         ELSE IF IsMap(fd) THEN SetMap(rft, fd, FilterMap(m, rft[fd], fd))
         ELSE IF IsList(fd)
              THEN IF ListOfScalars(fd)
                   THEN rft
                   ELSE [rft EXCEPT ![fd] = [i \in DOMAIN @ |-> Filter(m, @[i])]]
         ELSE IF IsMessageKind(fd)
              THEN [rft EXCEPT ![fd] = Filter(m, @)]
         ELSE rft
    ELSE rft

\* FilterField that clears a nested message it finds with no populated
\* field instead of filtering it.
FilterField_DropsEmptyMessage(mask, rft, fd) ==
    IF fd \in DOMAIN mask
    THEN LET m == mask[fd] IN
         IF IsLeaf(m) THEN rft
         ELSE IF IsMap(fd) THEN SetMap(rft, fd, FilterMap(m, rft[fd], fd))
         ELSE IF IsList(fd)
              THEN IF ListOfScalars(fd)
                   THEN rft
                   ELSE [rft EXCEPT ![fd] = [i \in DOMAIN @ |-> Filter(m, @[i])]]
         ELSE IF IsMessageKind(fd)
              THEN IF rft[fd] = EmptyMessage
                   THEN Clear(rft, fd)
                   ELSE [rft EXCEPT ![fd] = Filter(m, @)]
         ELSE rft
    ELSE Clear(rft, fd)

\* FilterField that clears a scalar whose name maps to a non-leaf subtree.
FilterField_ClearsScalar(mask, rft, fd) ==
    IF fd \in DOMAIN mask
    THEN LET m == mask[fd] IN
         IF IsLeaf(m) THEN rft
         ELSE IF IsMap(fd) THEN SetMap(rft, fd, FilterMap(m, rft[fd], fd))
         ELSE IF IsList(fd)
              THEN IF ListOfScalars(fd)
                   THEN rft
                   ELSE [rft EXCEPT ![fd] = [i \in DOMAIN @ |-> Filter(m, @[i])]]
         ELSE IF IsMessageKind(fd)
              THEN [rft EXCEPT ![fd] = Filter(m, @)]
         ELSE Clear(rft, fd)
    ELSE Clear(rft, fd)

\* The callback of rft.Range in Filter, for the populated field fd.
FilterField(mask, rft, fd) ==
    IF fd \in DOMAIN mask
    THEN LET m == mask[fd] IN
         IF IsLeaf(m) THEN rft
         ELSE IF IsMap(fd) THEN SetMap(rft, fd, FilterMap(m, rft[fd], fd))
         ELSE IF IsList(fd)
              THEN IF ListOfScalars(fd)
                   THEN rft    \* list.Get(i).Message() panics: FilterFaults
                   ELSE [rft EXCEPT ![fd] = [i \in DOMAIN @ |-> Filter(m, @[i])]]
         ELSE IF IsMessageKind(fd)
              THEN [rft EXCEPT ![fd] = Filter(m, @)]
         ELSE rft
    ELSE Clear(rft, fd)

RECURSIVE FilterRange(_, _, _)
\* rft.Range: the callback runs once for each populated field; it changes
\* the field it is called for only, so the order is immaterial.
FilterRange(mask, rft, fds) ==
    IF fds = {} THEN rft
    ELSE LET fd == CHOOSE x \in fds : TRUE
         IN  FilterRange(mask, FilterField(mask, rft, fd), fds \ {fd})

\* Filter without the `if len(mask) == 0 { return }` fast path.
Filter_NoFastPath(mask, msg) == FilterRange(mask, msg, DOMAIN msg)

Filter(mask, msg) ==
    IF IsLeaf(mask) THEN msg ELSE FilterRange(mask, msg, DOMAIN msg)

\* PruneMap with the inner `else { xmap.Clear(mk) }` branch left out.
PruneMap_KeepsLeaf(m, xmap, fd) ==
    [mk \in DOMAIN xmap |->
        IF KeyString(mk) \in DOMAIN m /\ MapValueIsMessage(fd)
           /\ ~IsLeaf(m[KeyString(mk)])
        THEN Prune(m[KeyString(mk)], xmap[mk])
        ELSE xmap[mk]]

\* xmap.Range of Prune: an entry whose key is in m is pruned when its value
\* is a message and its subtree is no leaf, and cleared otherwise; an entry
\* whose key is not in m stays.
PruneMap(m, xmap, fd) ==
    LET cleared == {k \in DOMAIN xmap :
                       /\ KeyString(k) \in DOMAIN m
                       /\ ~(MapValueIsMessage(fd) /\ ~IsLeaf(m[KeyString(k)]))}
    IN  [mk \in (DOMAIN xmap) \ cleared |->
            IF KeyString(mk) \in DOMAIN m
            THEN Prune(m[KeyString(mk)], xmap[mk])
            ELSE xmap[mk]]

\* PruneField without the rft.Clear(fd) of a field under a leaf.
PruneField_KeepsLeaf(mask, rft, fd) ==
    IF fd \in DOMAIN mask
    THEN LET m == mask[fd] IN
         IF IsLeaf(m) THEN rft
         ELSE IF IsMap(fd) THEN SetMap(rft, fd, PruneMap(m, rft[fd], fd))
         ELSE IF IsList(fd)
              THEN IF ListOfScalars(fd)
                   THEN rft
                   ELSE [rft EXCEPT ![fd] = [i \in DOMAIN @ |-> Prune(m, @[i])]]
         ELSE IF IsMessageKind(fd)
              THEN [rft EXCEPT ![fd] = Prune(m, @)]
         ELSE rft
    ELSE rft

\* PruneField calling m.Filter on the elements of a list, as filterField does.
PruneField_FiltersElements(mask, rft, fd) ==
    IF fd \in DOMAIN mask
    THEN LET m == mask[fd] IN
         IF IsLeaf(m) THEN Clear(rft, fd)
         ELSE IF IsMap(fd) THEN SetMap(rft, fd, PruneMap(m, rft[fd], fd))
         ELSE IF IsList(fd)
              THEN IF ListOfScalars(fd)
                   THEN rft
                   ELSE [rft EXCEPT ![fd] = [i \in DOMAIN @ |-> Filter(m, @[i])]]
         ELSE IF IsMessageKind(fd)
              THEN [rft EXCEPT ![fd] = Prune(m, @)]
         ELSE rft
    ELSE rft

\* PruneField that leaves the elements of a list alone.
PruneField_SkipsLists(mask, rft, fd) ==
    IF fd \in DOMAIN mask
    THEN LET m == mask[fd] IN
         IF IsLeaf(m) THEN Clear(rft, fd)
         ELSE IF IsMap(fd) THEN SetMap(rft, fd, PruneMap(m, rft[fd], fd))
         ELSE IF IsList(fd)
              THEN rft
         ELSE IF IsMessageKind(fd)
              THEN [rft EXCEPT ![fd] = Prune(m, @)]
         ELSE rft
    ELSE rft

\* PruneField that takes the elements out of a list that are left with no
\* populated field.
PruneField_DropsEmptyElements(mask, rft, fd) ==
    IF fd \in DOMAIN mask
    THEN LET m == mask[fd] IN
         IF IsLeaf(m) THEN Clear(rft, fd)
         ELSE IF IsMap(fd) THEN SetMap(rft, fd, PruneMap(m, rft[fd], fd))
         ELSE IF IsList(fd)
              THEN IF ListOfScalars(fd)
                   THEN rft
                   ELSE LET pruned == [i \in DOMAIN rft[fd] |-> Prune(m, rft[fd][i])]
                            Populated(x) == x # EmptyMessage
                            kept == SelectSeq(pruned, Populated)
                        IN  IF kept = << >> THEN Clear(rft, fd)
                            ELSE [rft EXCEPT ![fd] = kept]
         ELSE IF IsMessageKind(fd)
              THEN [rft EXCEPT ![fd] = Prune(m, @)]
         ELSE rft
    ELSE rft

\* The callback of rft.Range in Prune, for the populated field fd.
PruneField(mask, rft, fd) ==
    IF fd \in DOMAIN mask
    THEN LET m == mask[fd] IN
         IF IsLeaf(m) THEN Clear(rft, fd)
         ELSE IF IsMap(fd) THEN SetMap(rft, fd, PruneMap(m, rft[fd], fd))
         ELSE IF IsList(fd)
              THEN IF ListOfScalars(fd)
                   THEN rft    \* list.Get(i).Message() panics: PruneFaults
                   ELSE [rft EXCEPT ![fd] = [i \in DOMAIN @ |-> Prune(m, @[i])]]
         ELSE IF IsMessageKind(fd)
              THEN [rft EXCEPT ![fd] = Prune(m, @)]
         ELSE rft
    ELSE rft

RECURSIVE PruneRange(_, _, _)
PruneRange(mask, rft, fds) ==
    IF fds = {} THEN rft
    ELSE LET fd == CHOOSE x \in fds : TRUE
         IN  PruneRange(mask, PruneField(mask, rft, fd), fds \ {fd})

Prune(mask, msg) ==
    IF IsLeaf(mask) THEN msg ELSE PruneRange(mask, msg, DOMAIN msg)

\* Filter panics: list.Get(i).Message() is reached for a list of scalars,
\* here or in a nested call.
FilterFaults(mask, msg) ==
    /\ ~IsLeaf(mask)
    /\ \E fd \in (DOMAIN msg) \cap (DOMAIN mask) :
          LET m == mask[fd] IN
          /\ ~IsLeaf(m)
          /\ IF IsMap(fd)
             THEN /\ MapValueIsMessage(fd)
                  /\ \E mk \in DOMAIN msg[fd] :
                        /\ KeyString(mk) \in DOMAIN m
                        /\ ~IsLeaf(m[KeyString(mk)])
                        /\ FilterFaults(m[KeyString(mk)], msg[fd][mk])
             ELSE IF IsList(fd)
             THEN \/ ListOfScalars(fd)
                  \/ \E i \in DOMAIN msg[fd] : FilterFaults(m, msg[fd][i])
             ELSE IsMessageKind(fd) /\ FilterFaults(m, msg[fd])

\* Prune panics, in the same place.
PruneFaults(mask, msg) ==
    /\ ~IsLeaf(mask)
    /\ \E fd \in (DOMAIN msg) \cap (DOMAIN mask) :
          LET m == mask[fd] IN
          /\ ~IsLeaf(m)
          /\ IF IsMap(fd)
             THEN /\ MapValueIsMessage(fd)
                  /\ \E mk \in DOMAIN msg[fd] :
                        /\ KeyString(mk) \in DOMAIN m
                        /\ ~IsLeaf(m[KeyString(mk)])
                        /\ PruneFaults(m[KeyString(mk)], msg[fd][mk])
             ELSE IF IsList(fd)
             THEN \/ ListOfScalars(fd)
                  \/ \E i \in DOMAIN msg[fd] : PruneFaults(m, msg[fd][i])
             ELSE IsMessageKind(fd) /\ PruneFaults(m, msg[fd])

(* --------------------------- wildcard engine -------------------------- *)
RECURSIVE WildcardFilter(_, _)
RECURSIVE WildcardFaults(_, _)

\* filterMapKey: the entry mk of xmap is filtered with the subtree that mask
\* holds under the key (or under `*`) when there is one that is no leaf and
\* the value is a message; every path returns true.
filterMapKey(mask, xmap, mk, fd, wildcard) ==
    LET key == IF wildcard THEN "*" ELSE KeyString(mk)
        ok == key \in DOMAIN mask
    IN  [ret  |-> TRUE,
         xmap |-> IF ok /\ MapValueIsMessage(fd) /\ ~IsLeaf(mask[key])
                  THEN [xmap EXCEPT ![mk] = WildcardFilter(mask[key], @)]
                  ELSE xmap]

RECURSIVE filterMapRange(_, _, _, _, _)
\* xmap.Range in filterField over the entries mks still to visit; the
\* callback looks the entry's key up in mask, the mask filterField was
\* called on.  Returning false ends the iteration.
filterMapRange(mask, xmap, mks, fd, pruning) ==
    IF mks = {} THEN xmap
    ELSE LET mk == CHOOSE x \in mks : TRUE
             r1 == filterMapKey(mask, xmap, mk, fd, FALSE)
             r2 == filterMapKey(mask, r1.xmap, mk, fd, TRUE)
         IN  IF r1.ret
             THEN filterMapRange(mask,
                      IF pruning THEN Clear(r1.xmap, mk) ELSE r1.xmap,
                      mks \ {mk}, fd, pruning)
             ELSE IF r2.ret
             THEN filterMapRange(mask,
                      IF pruning THEN Clear(r2.xmap, mk) ELSE r2.xmap,
                      mks \ {mk}, fd, pruning)
             ELSE IF ~pruning THEN Clear(r2.xmap, mk) ELSE r2.xmap

\* filterField: [ret |-> the value returned, rft |-> the message after it].
filterField(mask, rft, fd, wildcard, pruning) ==
    LET key == IF wildcard THEN "*" ELSE fd
        ok == key \in DOMAIN mask
    IN  IF ~ok THEN [ret |-> TRUE, rft |-> rft]
        ELSE LET m == mask[key] IN
             IF IsLeaf(m) THEN [ret |-> TRUE, rft |-> rft]
             ELSE IF IsMap(fd)
                  THEN [ret |-> TRUE,
                        rft |-> SetMap(rft, fd,
                                    filterMapRange(mask, rft[fd], DOMAIN rft[fd],
                                                   fd, pruning))]
             ELSE IF IsList(fd)
                  THEN IF ListOfScalars(fd)
                       THEN [ret |-> TRUE, rft |-> rft]  \* panics: WildcardFaults
                       ELSE [ret |-> TRUE,
                             rft |-> [rft EXCEPT ![fd] =
                                        [i \in DOMAIN @ |-> WildcardFilter(m, @[i])]]]
             ELSE IF IsMessageKind(fd)
                  THEN [ret |-> TRUE,
                        rft |-> [rft EXCEPT ![fd] = WildcardFilter(m, @)]]
             ELSE [ret |-> TRUE, rft |-> rft]

RECURSIVE WildcardFilterRange(_, _, _)
\* rft.Range in WildcardNestedMask.Filter over the fields fds still to
\* visit.  Returning false ends the iteration.
WildcardFilterRange(mask, rft, fds) ==
    IF fds = {} THEN rft
    ELSE LET fd == CHOOSE x \in fds : TRUE
             r1 == filterField(mask, rft, fd, FALSE, FALSE)
             r2 == filterField(mask, r1.rft, fd, TRUE, FALSE)
         IN  IF r1.ret THEN WildcardFilterRange(mask, r1.rft, fds \ {fd})
             ELSE IF r2.ret THEN WildcardFilterRange(mask, r2.rft, fds \ {fd})
             ELSE Clear(r2.rft, fd)

WildcardFilter(mask, msg) ==
    IF IsLeaf(mask) THEN msg ELSE WildcardFilterRange(mask, msg, DOMAIN msg)

RECURSIVE WildcardPruneRange(_, _, _)
\* rft.Range in WildcardNestedMask.Prune.
WildcardPruneRange(mask, rft, fds) ==
    IF fds = {} THEN rft
    ELSE LET fd == CHOOSE x \in fds : TRUE
             r1 == filterField(mask, rft, fd, FALSE, TRUE)
             r2 == filterField(mask, r1.rft, fd, TRUE, TRUE)
         IN  IF r1.ret
             THEN WildcardPruneRange(mask, Clear(r1.rft, fd), fds \ {fd})
             ELSE IF r2.ret
             THEN WildcardPruneRange(mask, Clear(r2.rft, fd), fds \ {fd})
             ELSE r2.rft

WildcardPrune(mask, msg) ==
    IF IsLeaf(mask) THEN msg ELSE WildcardPruneRange(mask, msg, DOMAIN msg)

\* WildcardNestedMask.Filter and .Prune panic: filterField reaches
\* list.Get(i).Message() for a list of scalars, here or in a nested Filter
\* (filterField recurses with Filter in both modes).
WildcardFaults(mask, msg) ==
    /\ ~IsLeaf(mask)
    /\ \E fd \in (DOMAIN msg) \cap (DOMAIN mask) :
          LET m == mask[fd] IN
          /\ ~IsLeaf(m)
          /\ IF IsMap(fd)
             THEN /\ MapValueIsMessage(fd)
                  /\ \E mk \in DOMAIN msg[fd] :
                        /\ KeyString(mk) \in DOMAIN mask
                        /\ ~IsLeaf(mask[KeyString(mk)])
                        /\ WildcardFaults(mask[KeyString(mk)], msg[fd][mk])
             ELSE IF IsList(fd)
             THEN \/ ListOfScalars(fd)
                  \/ \E i \in DOMAIN msg[fd] : WildcardFaults(m, msg[fd][i])
             ELSE IsMessageKind(fd) /\ WildcardFaults(m, msg[fd])

(* ------------------------------- state -------------------------------- *)
VARIABLES
    paths,      \* the paths the mask was built from
    mask,       \* the mask: NestedMask or WildcardNestedMask
    msg,        \* the message, mutated in place by every call
    pre,        \* the message as it was before the last call
    op,         \* the last call made on the message
    panicked    \* the last call panicked (the process is gone)

vars == <<paths, mask, msg, pre, op, panicked>>

\* DoFilter with a mask that gives up the keys it matched: the mask is empty
\* after the call.
DoFilter_ConsumesMask ==
    /\ ~panicked
    /\ op' = "Filter"
    /\ pre' = msg
    /\ panicked' = FilterFaults(mask, msg)
    /\ msg' = IF FilterFaults(mask, msg) THEN msg ELSE Filter(mask, msg)
    /\ mask' = EmptyMask
    /\ UNCHANGED paths

\* mask.Filter(msg), mask a NestedMask: the call returns, or it panics
\* somewhere on the way and leaves a message nobody reads any more.
DoFilter ==
    /\ ~panicked
    /\ op' = "Filter"
    /\ pre' = msg
    /\ panicked' = FilterFaults(mask, msg)
    /\ msg' = IF FilterFaults(mask, msg) THEN msg ELSE Filter(mask, msg)
    /\ UNCHANGED <<paths, mask>>

\* mask.Prune(msg), mask a NestedMask
DoPrune ==
    /\ ~panicked
    /\ op' = "Prune"
    /\ pre' = msg
    /\ panicked' = PruneFaults(mask, msg)
    /\ msg' = IF PruneFaults(mask, msg) THEN msg ELSE Prune(mask, msg)
    /\ UNCHANGED <<paths, mask>>

\* mask.Filter(msg), mask a WildcardNestedMask
DoWildcardFilter ==
    /\ ~panicked
    /\ op' = "WildcardFilter"
    /\ pre' = msg
    /\ panicked' = WildcardFaults(mask, msg)
    /\ msg' = IF WildcardFaults(mask, msg) THEN msg ELSE WildcardFilter(mask, msg)
    /\ UNCHANGED <<paths, mask>>

\* mask.Prune(msg), mask a WildcardNestedMask
DoWildcardPrune ==
    /\ ~panicked
    /\ op' = "WildcardPrune"
    /\ pre' = msg
    /\ panicked' = WildcardFaults(mask, msg)
    /\ msg' = IF WildcardFaults(mask, msg) THEN msg ELSE WildcardPrune(mask, msg)
    /\ UNCHANGED <<paths, mask>>

\* The path lists of the exact engine, each with the mask built from it.
ExactMasks ==
    {[paths |-> p, mask |-> NestedMaskFromPaths(p)] : p \in PathLists(ExactPool)}

\* The path lists of the wildcard engine, each with the mask built from it.
WildcardMasks ==
    {[paths |-> p, mask |-> WildcardNestedMaskFromPaths(p)] :
        p \in PathLists(WildcardPool)}

\* A message and a NestedMask built from a list of paths.
Init ==
    \E m \in Messages, b \in ExactMasks :
        /\ msg = m
        /\ paths = b.paths
        /\ mask = b.mask
        /\ pre = m
        /\ op = "none"
        /\ panicked = FALSE

Next == DoFilter \/ DoPrune

Spec == Init /\ [][Next]_vars

\* A message and a WildcardNestedMask built from a list of paths.
WildcardInit ==
    \E m \in Messages, b \in WildcardMasks :
        /\ msg = m
        /\ paths = b.paths
        /\ mask = b.mask
        /\ pre = m
        /\ op = "none"
        /\ panicked = FALSE

WildcardNext == DoWildcardFilter \/ DoWildcardPrune

WildcardSpec == WildcardInit /\ [][WildcardNext]_vars

(* ------------------- one mask used by both engines -------------------- *)
\* A NestedMask converts to a WildcardNestedMask and back: the tree is the
\* same, and `*` is a key like any other for the exact engine.
SharedNext == DoFilter \/ DoPrune \/ DoWildcardFilter \/ DoWildcardPrune

SharedSpec == WildcardInit /\ [][SharedNext]_vars

(* ----------------------- the builders on their own -------------------- *)
\* The runes of the paths a builder is given on its own.
RuneAlphabet == {Dot, "a"}

\* Paths with the segment `*`.
StarPaths == {<<"*">>, <<"a", Dot, "*">>, <<"*", Dot, "a">>}

\* Every path of at most MaxRunes runes, and the paths with `*`.
RunePaths == UNION {[1..n -> RuneAlphabet] : n \in 0..MaxRunes} \cup StarPaths

\* NestedMaskFromPaths(paths)
DoNestedMaskFromPaths ==
    /\ op' = "NestedMaskFromPaths"
    /\ mask' = NestedMaskFromPaths(paths)
    /\ UNCHANGED <<paths, msg, pre, panicked>>

\* WildcardNestedMaskFromPaths(paths)
DoWildcardNestedMaskFromPaths ==
    /\ op' = "WildcardNestedMaskFromPaths"
    /\ mask' = WildcardNestedMaskFromPaths(paths)
    /\ UNCHANGED <<paths, msg, pre, panicked>>

\* A list of paths, and no mask built yet.
BuilderInit ==
    /\ paths \in PathLists(RunePaths)
    /\ mask = EmptyMask
    /\ msg = EmptyMessage
    /\ pre = EmptyMessage
    /\ op = "none"
    /\ panicked = FALSE

BuilderNext == DoNestedMaskFromPaths \/ DoWildcardNestedMaskFromPaths

BuilderSpec == BuilderInit /\ [][BuilderNext]_vars

(* ------------------------------ claims -------------------------------- *)
\* The last call was name and it returned.
Returned(name) == op = name /\ ~panicked

\* The entries of the map field fd of m; none when fd is not populated.
EntriesOf(m, fd) == IF fd \in DOMAIN m THEN m[fd] ELSE << >>

\* No rune of any path is the wildcard, so no segment is `*`.
StarFree(ps) == \A i \in DOMAIN ps : \A j \in DOMAIN ps[i] : ps[i][j] # "*"

\* Every path consists of delimiters only.
DelimitersOnly(ps) == \A i \in DOMAIN ps : \A j \in DOMAIN ps[i] : ps[i][j] = Dot

\* C1: after NestedMask.Filter with a non-empty mask, every field that was
\* populated and whose name is no key of the mask is cleared, and every
\* field whose name maps to a leaf is still there with its whole value
\* unchanged.
C1_FilterClearsAbsentKeepsLeaf ==
    (Returned("Filter") /\ ~IsLeaf(mask)) =>
        \A fd \in DOMAIN pre :
            IF fd \notin DOMAIN mask THEN fd \notin DOMAIN msg
            ELSE IsLeaf(mask[fd]) => (fd \in DOMAIN msg /\ msg[fd] = pre[fd])

\* C1 witness: Filter kept a nested message with a populated field under a
\* leaf and cleared another field.
C1_Witness ==
    /\ Returned("Filter")
    /\ "user" \in (DOMAIN mask) \cap (DOMAIN pre)
    /\ IsLeaf(mask["user"])
    /\ pre["user"] # EmptyMessage
    /\ \E fd \in DOMAIN pre : fd \notin DOMAIN mask

\* C2: after NestedMask.Prune with a non-empty mask, every field whose name
\* maps to a leaf is cleared, and every field whose name is no key of the
\* mask is still there with its whole value unchanged.
C2_PruneClearsLeafKeepsAbsent ==
    (Returned("Prune") /\ ~IsLeaf(mask)) =>
        \A fd \in DOMAIN pre :
            IF fd \notin DOMAIN mask
            THEN fd \in DOMAIN msg /\ msg[fd] = pre[fd]
            ELSE IsLeaf(mask[fd]) => fd \notin DOMAIN msg

\* C2 witness: Prune cleared a populated nested message under a leaf and
\* left another field alone.
C2_Witness ==
    /\ Returned("Prune")
    /\ "user" \in (DOMAIN mask) \cap (DOMAIN pre)
    /\ IsLeaf(mask["user"])
    /\ pre["user"] # EmptyMessage
    /\ \E fd \in DOMAIN pre : fd \notin DOMAIN mask

\* The operation of the exact engine that the last call was.
SameOperation(m, x) == IF op = "Filter" THEN Filter(m, x) ELSE Prune(m, x)

\* C3: in the exact engine a singular message under a non-leaf subtree m is
\* the result of the same operation with m on it, a list of messages under
\* m keeps its length and order and each element is the result of the same
\* operation with m on it, and the field stays populated.
C3_RecursesSameOperation ==
    (Returned("Filter") \/ Returned("Prune")) =>
        \A fd \in (DOMAIN pre) \cap (DOMAIN mask) :
            ~IsLeaf(mask[fd]) =>
                /\ IsMessageKind(fd) =>
                      /\ fd \in DOMAIN msg
                      /\ msg[fd] = SameOperation(mask[fd], pre[fd])
                /\ FieldKind[fd] = "list_message" =>
                      /\ fd \in DOMAIN msg
                      /\ Len(msg[fd]) = Len(pre[fd])
                      /\ \A i \in 1..Len(pre[fd]) :
                            msg[fd][i] = SameOperation(mask[fd], pre[fd][i])

\* C3 witness: Prune went into a list of two messages under a non-leaf
\* subtree and changed one of the two.
C3_Witness ==
    /\ Returned("Prune")
    /\ "gallery" \in (DOMAIN mask) \cap (DOMAIN pre)
    /\ ~IsLeaf(mask["gallery"])
    /\ Len(pre["gallery"]) = 2
    /\ msg["gallery"][1] # pre["gallery"][1]
    /\ msg["gallery"][2] = pre["gallery"][2]

\* C4: after NestedMask.Filter, a map field under a non-leaf subtree m holds
\* exactly the entries it had whose key is a key of m; such an entry is
\* unchanged when its key maps to a leaf, and is the result of Filter with
\* the key's subtree when its value is a message and the subtree is no leaf.
C4_FilterMapEntries ==
    Returned("Filter") =>
        \A fd \in (DOMAIN pre) \cap (DOMAIN mask) :
            (IsMap(fd) /\ ~IsLeaf(mask[fd])) =>
                LET m == mask[fd]
                    before == pre[fd]
                    after == EntriesOf(msg, fd)
                IN  /\ DOMAIN after = {k \in DOMAIN before : KeyString(k) \in DOMAIN m}
                    /\ \A k \in DOMAIN after :
                          IF IsLeaf(m[KeyString(k)])
                          THEN after[k] = before[k]
                          ELSE MapValueIsMessage(fd) =>
                                  after[k] = Filter(m[KeyString(k)], before[k])

\* C4 witness: Filter removed one entry of a map and changed the message of
\* another, whose key maps to a non-leaf subtree.
C4_Witness ==
    /\ Returned("Filter")
    /\ "attributes" \in (DOMAIN mask) \cap (DOMAIN pre) \cap (DOMAIN msg)
    /\ \E k \in DOMAIN pre["attributes"] : k \notin DOMAIN mask["attributes"]
    /\ \E k \in DOMAIN msg["attributes"] :
          /\ ~IsLeaf(mask["attributes"][k])
          /\ msg["attributes"][k] # pre["attributes"][k]

\* C5: after NestedMask.Prune, a map field under a non-leaf subtree m has
\* lost the entries whose key maps to a leaf of m, holds the result of Prune
\* with the key's subtree for an entry whose value is a message and whose
\* key maps to a non-leaf subtree, and holds every entry whose key is no key
\* of m unchanged.
C5_PruneMapEntries ==
    Returned("Prune") =>
        \A fd \in (DOMAIN pre) \cap (DOMAIN mask) :
            (IsMap(fd) /\ ~IsLeaf(mask[fd])) =>
                LET m == mask[fd]
                    before == pre[fd]
                    after == EntriesOf(msg, fd)
                IN  \A k \in DOMAIN before :
                        IF KeyString(k) \notin DOMAIN m
                        THEN k \in DOMAIN after /\ after[k] = before[k]
                        ELSE IF IsLeaf(m[KeyString(k)])
                        THEN k \notin DOMAIN after
                        ELSE MapValueIsMessage(fd) =>
                                /\ k \in DOMAIN after
                                /\ after[k] = Prune(m[KeyString(k)], before[k])

\* C5 witness: Prune removed the entry of a map whose key maps to a leaf and
\* left the other entry, whose key the subtree does not have.
C5_Witness ==
    /\ Returned("Prune")
    /\ "attributes" \in (DOMAIN mask) \cap (DOMAIN pre) \cap (DOMAIN msg)
    /\ \E k \in DOMAIN pre["attributes"] :
          /\ k \in DOMAIN mask["attributes"]
          /\ IsLeaf(mask["attributes"][k])
    /\ \E k \in DOMAIN msg["attributes"] :
          /\ k \notin DOMAIN mask["attributes"]
          /\ msg["attributes"][k] # EmptyMessage

\* C6: NestedMask.Filter and NestedMask.Prune called with an empty mask, as
\* the one built from no path or from delimiter-only paths is, return and
\* leave the message as it was.
C6_EmptyMaskChangesNothing ==
    ((op \in {"Filter", "Prune"}) /\ (IsLeaf(mask) \/ DelimitersOnly(paths))) =>
        (~panicked /\ msg = pre)

\* C6 witness: Filter was called on a message with populated fields with
\* the mask built from one delimiter-only path.
C6_Witness ==
    /\ Returned("Filter")
    /\ paths = << <<Dot, Dot>> >>
    /\ IsLeaf(mask)
    /\ pre # EmptyMessage

\* The subtree the wildcard engine is to use for key in m: the one under the
\* key when there is one, else the one under `*`.
Resolves(m, key) == key \in DOMAIN m \/ "*" \in DOMAIN m
Resolved(m, key) == IF key \in DOMAIN m THEN m[key] ELSE m["*"]

\* C7: after WildcardNestedMask.Filter with a non-empty mask, a field with
\* neither its name nor `*` in the mask is cleared; otherwise the subtree
\* under its name, or else under `*`, decides: a leaf keeps the field whole,
\* a non-leaf subtree filters the singular message in it.
C7_WildcardFilterResolvesField ==
    (Returned("WildcardFilter") /\ ~IsLeaf(mask)) =>
        \A fd \in DOMAIN pre :
            IF ~Resolves(mask, fd) THEN fd \notin DOMAIN msg
            ELSE IF IsLeaf(Resolved(mask, fd))
            THEN fd \in DOMAIN msg /\ msg[fd] = pre[fd]
            ELSE IsMessageKind(fd) =>
                    /\ fd \in DOMAIN msg
                    /\ msg[fd] = WildcardFilter(Resolved(mask, fd), pre[fd])

\* C8: for paths without `*`, WildcardNestedMask.Filter leaves the message
\* as NestedMask.Filter with the mask of the same paths leaves it.
C8_WildcardFilterEqualsFilter ==
    (Returned("WildcardFilter") /\ StarFree(paths)
        /\ ~FilterFaults(NestedMaskFromPaths(paths), pre)) =>
        msg = Filter(NestedMaskFromPaths(paths), pre)

\* C9: for paths without `*`, WildcardNestedMask.Prune leaves the message
\* as NestedMask.Prune with the mask of the same paths leaves it.
C9_WildcardPruneEqualsPrune ==
    (Returned("WildcardPrune") /\ StarFree(paths)
        /\ ~PruneFaults(NestedMaskFromPaths(paths), pre)) =>
        msg = Prune(NestedMaskFromPaths(paths), pre)

\* C10: after WildcardNestedMask.Filter, a map field matched by a non-leaf
\* subtree m holds exactly the entries it had whose key, or else `*`, is a
\* key of m; such an entry is unchanged when the subtree resolved for its
\* key is a leaf, and its message is filtered with that subtree otherwise.
C10_WildcardFilterMapEntries ==
    Returned("WildcardFilter") =>
        \A fd \in DOMAIN pre :
            (IsMap(fd) /\ Resolves(mask, fd) /\ ~IsLeaf(Resolved(mask, fd))) =>
                LET m == Resolved(mask, fd)
                    before == pre[fd]
                    after == EntriesOf(msg, fd)
                IN  /\ DOMAIN after = {k \in DOMAIN before : Resolves(m, KeyString(k))}
                    /\ \A k \in DOMAIN after :
                          LET mi == Resolved(m, KeyString(k)) IN
                          IF IsLeaf(mi) THEN after[k] = before[k]
                          ELSE MapValueIsMessage(fd) =>
                                  after[k] = WildcardFilter(mi, before[k])

\* The paths of the test with both a field name and `*` at one level
\* (without the leading segment of the enclosing message).
TagsT1 == PathOf(<<"attributes", "*", "tags", "t1">>)
TagsT3 == PathOf(<<"*", "*", "tags", "t3">>)

\* C11: after WildcardFilter with the paths attributes.*.tags.t1 and
\* *.*.tags.t3, the attributes map has the entries it had, and each entry
\* has exactly those of its tags that are t1 or t3.
C11_WildcardFilterMergesSubtrees ==
    (/\ Returned("WildcardFilter")
     /\ paths \in {<<TagsT1, TagsT3>>, <<TagsT3, TagsT1>>}
     /\ "attributes" \in DOMAIN pre) =>
        /\ "attributes" \in DOMAIN msg
        /\ DOMAIN msg["attributes"] = DOMAIN pre["attributes"]
        /\ \A k \in DOMAIN pre["attributes"] :
              LET before == EntriesOf(pre["attributes"][k], "tags")
                  after == EntriesOf(msg["attributes"][k], "tags")
              IN  /\ DOMAIN after = (DOMAIN before) \cap {"t1", "t3"}
                  /\ \A t \in DOMAIN after : after[t] = before[t]

\* C12: no call of Filter or Prune panics, whatever the paths of the mask and
\* the kinds of the fields of the message.
C12_FilterPruneNeverPanic == op \in {"Filter", "Prune"} => ~panicked

\* The last call was one of the two builders.
Built == op \in {"NestedMaskFromPaths", "WildcardNestedMaskFromPaths"}

RECURSIVE Join(_)
\* The string of a sequence of runes.
Join(runes) == IF runes = << >> THEN "" ELSE Head(runes) \o Join(Tail(runes))

\* The positions of path where a segment starts: a rune that is no delimiter
\* and follows a delimiter or nothing.
SegmentStarts(path) ==
    {i \in DOMAIN path : path[i] # Dot /\ (i = 1 \/ path[i - 1] = Dot)}

\* The segment of path that starts at i: the runes up to the next delimiter.
SegmentAt(path, i) ==
    LET end == CHOOSE j \in i..Len(path) :
                   /\ \A k \in i..j : path[k] # Dot
                   /\ (j = Len(path) \/ path[j + 1] = Dot)
    IN  Join(SubSeq(path, i, end))

\* The non-empty segments of path, in order.
SegmentsOf(path) ==
    LET starts == SegmentStarts(path)
        nth(n) == CHOOSE i \in starts :
                      Cardinality({j \in starts : j < i}) = n - 1
    IN  [n \in 1..Cardinality(starts) |-> SegmentAt(path, nth(n))]

\* The non-empty prefixes of the segment sequences of the paths ps.
SegmentPrefixes(ps) ==
    UNION {{SubSeq(SegmentsOf(ps[i]), 1, n) : n \in 1..Len(SegmentsOf(ps[i]))} :
              i \in DOMAIN ps}

RECURSIVE NodesOf(_)
\* The key sequences that lead from the root of the mask m to a node.
NodesOf(m) ==
    {<<k>> : k \in DOMAIN m}
        \cup UNION {{<<k>> \o s : s \in NodesOf(m[k])} : k \in DOMAIN m}

\* C13: the mask a builder returns has a node at a key sequence exactly when
\* the sequence is a non-empty prefix of the sequence of non-empty segments
\* of one of the paths; `*` is a segment like any other.
C13_BuilderIsTrieOfSegments == Built => NodesOf(mask) = SegmentPrefixes(paths)

\* C13 witness: a builder returned a mask with a nested key, from two paths of
\* which one has an empty segment.
C13_Witness ==
    /\ Built
    /\ Len(paths) = 2
    /\ \E i \in DOMAIN paths :
          \E j \in DOMAIN paths[i] :
              paths[i][j] = Dot /\ (j = 1 \/ paths[i][j - 1] = Dot)
    /\ \E k \in DOMAIN mask : ~IsLeaf(mask[k])

\* The elements of the sequence ps.
Range(ps) == {ps[i] : i \in DOMAIN ps}

\* The lists that are ps in another order, or ps with one of its paths once
\* more.
Rearrangements(ps) ==
    {[i \in DOMAIN ps |-> ps[f[i]]] : f \in Permutations(DOMAIN ps)}
        \cup {Append(ps, ps[i]) : i \in DOMAIN ps}

\* C14: NestedMaskFromPaths returns the same mask for the paths in any other
\* order and for the list with a path repeated.
C14_BuilderIgnoresOrderAndDuplicates ==
    op = "NestedMaskFromPaths" =>
        \A qs \in Rearrangements(paths) : NestedMaskFromPaths(qs) = mask

\* C14 witness: NestedMaskFromPaths returned a mask for two different paths of
\* which one extends the other.
C14_Witness ==
    /\ op = "NestedMaskFromPaths"
    /\ Len(paths) = 2
    /\ \E i, j \in DOMAIN paths :
          /\ SegmentsOf(paths[i]) # << >>
          /\ Len(SegmentsOf(paths[i])) < Len(SegmentsOf(paths[j]))
          /\ SegmentsOf(paths[i]) =
                 SubSeq(SegmentsOf(paths[j]), 1, Len(SegmentsOf(paths[i])))

\* C15: a call of Filter on a message that the call of Filter before it
\* returned, with the same mask, returns and leaves the message as it is.
C15_FilterIdempotent ==
    [][(Returned("Filter") /\ op' = "Filter") => (~panicked' /\ msg' = msg)]_vars

\* C15 witness: Filter returned a message it did not change, in which a
\* nested message under a non-leaf subtree has no populated field and a map
\* entry is retained.
C15_Witness ==
    /\ Returned("Filter")
    /\ pre = msg
    /\ "user" \in (DOMAIN mask) \cap (DOMAIN msg)
    /\ ~IsLeaf(mask["user"])
    /\ msg["user"] = EmptyMessage
    /\ "attributes" \in (DOMAIN mask) \cap (DOMAIN msg)

\* C16: after Filter and after Prune, a scalar field of the nested message
\* user whose name maps to a non-leaf subtree is still there with its value.
C16_ScalarUnderNonLeafUntouched ==
    (/\ Returned("Filter") \/ Returned("Prune")
     /\ "user" \in (DOMAIN mask) \cap (DOMAIN pre)) =>
        \A fd \in DOMAIN pre["user"] :
            (/\ FieldKind[fd] = "scalar"
             /\ fd \in DOMAIN mask["user"]
             /\ ~IsLeaf(mask["user"][fd])) =>
                /\ "user" \in DOMAIN msg
                /\ fd \in DOMAIN msg["user"]
                /\ msg["user"][fd] = pre["user"][fd]

\* C16 witness: Prune returned for a message whose user.name is populated and
\* a mask in which user.name has a child.
C16_Witness ==
    /\ Returned("Prune")
    /\ "user" \in (DOMAIN mask) \cap (DOMAIN pre)
    /\ "name" \in (DOMAIN mask["user"]) \cap (DOMAIN pre["user"])
    /\ ~IsLeaf(mask["user"]["name"])

C18_ScalarEntryUnderNonLeafUntouched ==
    (/\ Returned("Filter") \/ Returned("Prune")
     /\ "attributes" \in (DOMAIN mask) \cap (DOMAIN pre)) =>
        \A k \in DOMAIN pre["attributes"] :
            (/\ k \in DOMAIN mask["attributes"]
             /\ "tags" \in DOMAIN mask["attributes"][k]) =>
                LET m == mask["attributes"][k]["tags"]
                    before == EntriesOf(pre["attributes"][k], "tags")
                IN  \A t \in DOMAIN before :
                        (t \in DOMAIN m /\ ~IsLeaf(m[t])) =>
                            /\ "attributes" \in DOMAIN msg
                            /\ k \in DOMAIN msg["attributes"]
                            /\ t \in DOMAIN EntriesOf(msg["attributes"][k], "tags")
                            /\ msg["attributes"][k]["tags"][t] = before[t]

RECURSIVE ScalarsOf(_)
\* The scalar values of the message m, each with its position: the field
\* names, list indices and map keys that lead to it.
ScalarsOf(m) ==
    LET Under(prefix, x) ==
            {[at |-> prefix \o s.at, value |-> s.value] : s \in ScalarsOf(x)}
        OfField(fd) ==
            LET v == m[fd] IN
            CASE FieldKind[fd] = "scalar" -> {[at |-> <<fd>>, value |-> v]}
              [] FieldKind[fd] = "list_scalar" ->
                    {[at |-> <<fd, ToString(i)>>, value |-> v[i]] : i \in DOMAIN v}
              [] FieldKind[fd] = "map_scalar" ->
                    {[at |-> <<fd, k>>, value |-> v[k]] : k \in DOMAIN v}
              [] FieldKind[fd] = "message" -> Under(<<fd>>, v)
              [] FieldKind[fd] = "list_message" ->
                    UNION {Under(<<fd, ToString(i)>>, v[i]) : i \in DOMAIN v}
              [] FieldKind[fd] = "map_message" ->
                    UNION {Under(<<fd, k>>, v[k]) : k \in DOMAIN v}
    IN  UNION {OfField(fd) : fd \in DOMAIN m}

RECURSIVE OverSpecified(_, _)
\* A non-leaf subtree of the mask m is matched against a scalar field or a
\* list of scalars of the message x, or of a message inside x.
OverSpecified(m, x) ==
    \E fd \in (DOMAIN m) \cap (DOMAIN x) :
        /\ ~IsLeaf(m[fd])
        /\ CASE FieldKind[fd] \in {"scalar", "list_scalar"} -> TRUE
             [] FieldKind[fd] = "map_scalar" -> FALSE
             [] FieldKind[fd] = "message" -> OverSpecified(m[fd], x[fd])
             [] FieldKind[fd] = "list_message" ->
                   \E i \in DOMAIN x[fd] : OverSpecified(m[fd], x[fd][i])
             [] FieldKind[fd] = "map_message" ->
                   \E k \in (DOMAIN x[fd]) \cap (DOMAIN m[fd]) :
                       ~IsLeaf(m[fd][k]) /\ OverSpecified(m[fd][k], x[fd][k])

\* C19: with a non-empty mask of which no non-leaf subtree is matched
\* against a scalar field or a list of scalars, every scalar value of the
\* message is in the message Filter leaves or in the message Prune leaves,
\* and in one of them only.
C19_PruneComplementsFilter ==
    (/\ Returned("Filter") \/ Returned("Prune")
     /\ ~IsLeaf(mask)
     /\ ~OverSpecified(mask, pre)) =>
        LET filtered == IF op = "Filter" THEN msg ELSE Filter(mask, pre)
            pruned == IF op = "Prune" THEN msg ELSE Prune(mask, pre)
        IN  /\ ScalarsOf(filtered) \cup ScalarsOf(pruned) = ScalarsOf(pre)
            /\ ScalarsOf(filtered) \cap ScalarsOf(pruned) = {}

\* C19 witness: Prune returned, Filter and Prune each retain a scalar value
\* of the message, and the mask names a list with a scalar value inside.
C19_Witness ==
    /\ Returned("Prune")
    /\ ~IsLeaf(mask)
    /\ ~OverSpecified(mask, pre)
    /\ ScalarsOf(msg) # {}
    /\ ScalarsOf(Filter(mask, pre)) # {}
    /\ "gallery" \in (DOMAIN mask) \cap (DOMAIN pre)
    /\ \E s \in ScalarsOf(pre) : s.at[1] = "gallery"

RECURSIVE Within(_, _)
\* Everything in the message after is in the message before, at the same
\* position and with the same scalar value, and the lists are as long.
Within(after, before) ==
    \A fd \in DOMAIN after :
        /\ fd \in DOMAIN before
        /\ CASE FieldKind[fd] \in {"scalar", "list_scalar"} ->
                   after[fd] = before[fd]
             [] FieldKind[fd] = "map_scalar" ->
                   /\ DOMAIN after[fd] \subseteq DOMAIN before[fd]
                   /\ \A k \in DOMAIN after[fd] : after[fd][k] = before[fd][k]
             [] FieldKind[fd] = "message" -> Within(after[fd], before[fd])
             [] FieldKind[fd] = "list_message" ->
                   /\ Len(after[fd]) = Len(before[fd])
                   /\ \A i \in DOMAIN after[fd] :
                          Within(after[fd][i], before[fd][i])
             [] FieldKind[fd] = "map_message" ->
                   /\ DOMAIN after[fd] \subseteq DOMAIN before[fd]
                   /\ \A k \in DOMAIN after[fd] :
                          Within(after[fd][k], before[fd][k])

\* C20: after Filter and after Prune, every field, list element and map
\* entry of the message was there before the call, at the same position and
\* with the same scalar value, and no list has changed its length.
C20_OnlyRemoves == (Returned("Filter") \/ Returned("Prune")) => Within(msg, pre)

\* C20 witness: Prune removed something from inside an element of a list and
\* left the list in the message.
C20_Witness ==
    /\ Returned("Prune")
    /\ "gallery" \in (DOMAIN msg) \cap (DOMAIN pre)
    /\ msg["gallery"] # pre["gallery"]

====
